---- MODULE Spec2Model ----
(***************************************************************************)
(* The Media component of the player (src/unnamed/part_000) and the        *)
(* YouTube adapter (src/src/js/media/youtube.js) as a state machine.       *)
(*                                                                         *)
(* One Media object is modelled.  Its synchronous methods are atomic       *)
(* actions (JavaScript runs a call to completion); promise reactions are   *)
(* jobs in a FIFO microtask queue that RunJob takes one at a time.  A      *)
(* caller may invoke the methods from its own promise reactions, so a      *)
(* method call may fall between any two jobs.                              *)
(***************************************************************************)
EXTENDS Integers, Sequences, FiniteSets, TLC

\* ------------------------------------------------------------------ bounds
MaxCalls == 3           \* method calls made on the Media object

\* ------------------------------------------------------------ JS values
Undefined == "undefined"
Null == "null"

\* A reference held in this.media or captured as a call's target: undefined,
\* null, the element, or the adapter object with the given id.
UndefinedRef == [tag |-> "undefined", id |-> 0]
NullRef == [tag |-> "null", id |-> 0]
ElementRef == [tag |-> "element", id |-> 0]
AdapterRef(n) == [tag |-> "adapter", id |-> n]

\* Errors a call can raise.
NoError == "none"
ReferenceError == "ReferenceError"
TypeErrorNotSet == "TypeError: Media not set"
TypeErrorCannotPlay == "TypeError: Media cannot be played with any valid media type"
TypeErrorProperty == "TypeError: cannot read property of undefined or null"
TypeErrorNotFunction == "TypeError: not a function"

\* --------------------------------------------------------- URLs and types
\* Abstract URLs.  Two of them match more than one pattern, so that the
\* order in which the patterns are tried is observable.
UrlYouTube == "https://youtube.com/watch?v=1"
UrlVimeo == "https://vimeo.com/1"
UrlVimeoYouTube == "https://vimeo.com/1?from=youtube.com"
UrlDailymotionYouTube == "https://dailymotion.com/video/1?from=youtu.be"
UrlFacebook == "https://facebook.com/v/videos/1"
UrlTwitchFacebook == "https://twitch.tv/videos/1?ref=facebook.com"
UrlHls == "https://cdn/a.m3u8"
UrlHlsDash == "https://cdn/a.m3u8?alt=a.mpd"
UrlDash == "https://cdn/a.mpd"
UrlMp4 == "https://cdn/a.mp4"
UrlPage == "https://example.com/page"

TypeYouTube == "application/x-youtube"
TypeVimeo == "video/x-vimeo"
TypeDailymotion == "video/x-dailymotion"
TypeFacebook == "video/x-facebook"
TypeTwitch == "video/x-twitch"
TypeHls == "application/x-mpegURL"
TypeDash == "application/dash+xml"
TypeMp4 == "video/mp4"
TypeOther == "text/html"

\* utils/url: the URL patterns.
isDailymotionSource(url) == url \in {UrlDailymotionYouTube}
isFacebookSource(url) == url \in {UrlFacebook, UrlTwitchFacebook}
isTwitchSource(url) == url \in {UrlTwitchFacebook}
isVimeoSource(url) == url \in {UrlVimeo, UrlVimeoYouTube}
isYouTubeSource(url) == url \in {UrlYouTube, UrlVimeoYouTube, UrlDailymotionYouTube}
isHlsSource(url) == url \in {UrlHls, UrlHlsDash}
isDashSource(url) == url \in {UrlDash, UrlHlsDash}

\* utils/url: the MIME type guessed from a URL.
predictType(url) ==
    IF isDailymotionSource(url) THEN TypeDailymotion
    ELSE IF isFacebookSource(url) THEN TypeFacebook
    ELSE IF isTwitchSource(url) THEN TypeTwitch
    ELSE IF isVimeoSource(url) THEN TypeVimeo
    ELSE IF isYouTubeSource(url) THEN TypeYouTube
    ELSE IF isHlsSource(url) THEN TypeHls
    ELSE IF isDashSource(url) THEN TypeDash
    ELSE IF url = UrlMp4 THEN TypeMp4
    ELSE TypeOther

\* utils/dom
isIframe(element) == element.kind = "iframe"

\* ------------------------------------------------------------- adapters
ThirdPartyKinds == {"DailymotionMedia", "FacebookMedia", "TwitchMedia", "VimeoMedia", "YouTubeMedia"}
NativeKinds == {"HlsMedia", "DashMedia", "NativeMedia"}

\* The functions of a YouTubeMedia object: the class defines canPlayType
\* and load.
YouTubeMethods == {"canPlayType", "load"}

\* The functions of the other adapters: the common surface.
CommonSurface == {"canPlayType", "load", "play", "pause", "destroy", "src"}

\* The functions an adapter object has.
AdapterMethods(kind) == IF kind = "YouTubeMedia" THEN YouTubeMethods ELSE CommonSurface

\* The functions of the element: a media element plays and pauses, an
\* iframe does neither.
ElementMethods(element) ==
    IF isIframe(element) THEN {} ELSE {"play", "pause", "load", "canPlayType"}

\* YouTubeMedia.canPlayType, on the adapter built for `file`.
YouTubeCanPlayType(file, mimeType) ==
    mimeType = TypeYouTube /\ file.type = mimeType

\* canPlayType of the other adapters: each plays its own MIME type.
OtherCanPlayType(kind, mimeType) ==
    CASE kind = "DailymotionMedia" -> mimeType = TypeDailymotion
      [] kind = "FacebookMedia" -> mimeType = TypeFacebook
      [] kind = "TwitchMedia" -> mimeType = TypeTwitch
      [] kind = "VimeoMedia" -> mimeType = TypeVimeo
      [] kind = "HlsMedia" -> mimeType = TypeHls
      [] kind = "DashMedia" -> mimeType = TypeDash
      [] kind = "NativeMedia" -> mimeType = TypeMp4
      [] OTHER -> FALSE

\* The promise of a new YouTubeMedia: its constructor resolves it.
YouTubePromise == "fulfilled"

\* The promise of another new adapter: resolved when its library has loaded.
LibraryPromise == "pending"

\* The promise of a new adapter.
NewPromise(kind) == IF kind = "YouTubeMedia" THEN YouTubePromise ELSE LibraryPromise

\* A media source descriptor.  The entry the constructor makes for the
\* element itself has a nodeSource key and no src key.
MediaFile(src, type) == [src |-> src, type |-> type, nodeSource |-> Undefined]

\* ------------------------------------------------------------ environment
\* A free identifier of the module is resolved in the global scope, which
\* the page owns: it is unbound (reading it raises a ReferenceError) or
\* bound to a value of the page.
Unbound == "unbound"
Globals ==
    { [nodeSource |-> Unbound, predictType |-> Unbound],
      [nodeSource |-> "", predictType |-> Unbound],
      [nodeSource |-> UrlMp4, predictType |-> "function"] }
\* What a predictType function of the page may return.
GlobalPredictResults == {TypeMp4, TypeOther}

\* The adapter classes whose constructor raises (their library is missing).
FailingSets == {{}, {"VimeoMedia"}, {"HlsMedia"}}

\* The <source> children of the video elements tried.
TagHlsDash == [src |-> UrlHlsDash, type |-> Null]
TagDash == [src |-> UrlDash, type |-> Null]
TagMp4 == [src |-> UrlMp4, type |-> TypeMp4]
TagPage == [src |-> UrlPage, type |-> Null]
SourceTagLists ==
    { <<>>, <<TagMp4>>, <<TagPage>>, <<TagHlsDash, TagMp4>>, <<TagPage, TagDash>>,
      <<TagPage, TagPage>> }

IframeElements ==
    { [kind |-> "iframe", src |-> u, type |-> Null, sourceTags |-> <<>>] :
        u \in {UrlYouTube, UrlVimeo, UrlVimeoYouTube, UrlDailymotionYouTube,
               UrlTwitchFacebook, UrlPage} }
VideoElements ==
    { [kind |-> "video", src |-> Undefined, type |-> Null, sourceTags |-> tags] :
        tags \in SourceTagLists }
    \cup { [kind |-> "video", src |-> UrlMp4, type |-> TypeMp4, sourceTags |-> <<TagMp4>>] }
Elements == IframeElements \cup VideoElements

\* What a caller gives the src setter.
SetterStrings == {UrlYouTube}
FileYouTube == MediaFile(UrlYouTube, TypeYouTube)
FilePage == MediaFile(UrlPage, TypeOther)
FileMp4 == MediaFile(UrlMp4, TypeMp4)
SetterObjects == {FileYouTube, FilePage}
SetterArrays == { <<>>, <<FileMp4>>, <<FilePage, FileYouTube>> }

\* ----------------------------------------------------------------- state
VARIABLES
    phase,        \* "new", "constructed", or "threw" (the constructor raised)
    element,      \* the element given to the constructor (this.element)
    globals,      \* the page's bindings of the module's free identifiers
    failing,      \* the adapter classes whose constructor raises
    mediaFiles,   \* this.mediaFiles
    media,        \* this.media
    promisePlay,  \* this.promisePlay: 0 for null, else an index of plays
    adapters,     \* the adapter objects this.media has referred to
    plays,        \* the promises made by play()
    queue,        \* the microtask queue
    calls,        \* the calls made on an adapter or on the element, in order
    built,        \* the adapters the last load() constructed, in order
    result,       \* the last method call and the error it raised
    count         \* how many times each method was called

vars == <<phase, element, globals, failing, mediaFiles, media, promisePlay,
          adapters, plays, queue, calls, built, result, count>>

Job(t, call, target) == [t |-> t, call |-> call, target |-> target]
Call(op, on, call, pending, arg) ==
    [op |-> op, on |-> on, call |-> call, pending |-> pending, arg |-> arg]
\* The last method call: its name, its argument (the src setter's) and the
\* error it raised.
SetterResult(op, arg, err) == [op |-> op, arg |-> arg, err |-> err]
Result(op, err) == SetterResult(op, <<>>, err)

\* The method calls made so far.
CallsMade == count.load + count.play + count.pause + count.set + count.destroy

Init ==
    /\ phase = "new"
    /\ element \in Elements
    /\ globals \in Globals
    /\ failing \in FailingSets
    /\ mediaFiles = <<>>
    /\ media = UndefinedRef
    /\ promisePlay = 0
    /\ adapters = <<>>
    /\ plays = <<>>
    /\ queue = <<>>
    /\ calls = <<>>
    /\ built = <<>>
    /\ result = Result("none", NoError)
    /\ count = [load |-> 0, play |-> 0, pause |-> 0, set |-> 0, destroy |-> 0]

\* ------------------------------------------------------------ constructor
\* item.getAttribute('type') || source.predictType(src)
TypeOrPredicted(attr, src) == IF attr \in {Null, ""} THEN predictType(src) ELSE attr

\* The entries _getMediaFiles makes for the <source> children.
RECURSIVE SourceTagFiles(_)
SourceTagFiles(tags) ==
    IF tags = <<>> THEN <<>>
    ELSE <<MediaFile(Head(tags).src, TypeOrPredicted(Head(tags).type, Head(tags).src))>>
         \o SourceTagFiles(Tail(tags))

\* _getMediaFiles raises on a media element when nodeSource is unbound.
GetMediaFilesRaises(el, g) == ~isIframe(el) /\ g.nodeSource = Unbound

\* _getMediaFiles, when it returns.
_getMediaFiles(el, g) ==
    IF isIframe(el)
    THEN <<MediaFile(el.src, predictType(el.src))>>
    ELSE (IF g.nodeSource # ""
          THEN <<[src |-> Undefined,
                  type |-> TypeOrPredicted(el.type, g.nodeSource),
                  nodeSource |-> g.nodeSource]>>
          ELSE <<>>)
         \o SourceTagFiles(el.sourceTags)

\* new Media(element)
Construct ==
    /\ phase = "new"
    /\ IF GetMediaFilesRaises(element, globals)
       THEN /\ phase' = "threw"
            /\ result' = Result("constructor", ReferenceError)
            /\ UNCHANGED mediaFiles
       ELSE /\ phase' = "constructed"
            /\ result' = Result("constructor", NoError)
            /\ mediaFiles' = _getMediaFiles(element, globals)
    /\ UNCHANGED <<element, globals, failing, media, promisePlay, adapters,
                   plays, queue, calls, built, count>>

\* ------------------------------------------------------------------ load
\* _loadIframeSource with the YouTube pattern tried first.
_loadIframeSource_YouTubeFirst(file) ==
    IF isYouTubeSource(file.src) THEN "YouTubeMedia"
    ELSE IF isDailymotionSource(file.src) THEN "DailymotionMedia"
    ELSE IF isFacebookSource(file.src) THEN "FacebookMedia"
    ELSE IF isTwitchSource(file.src) THEN "TwitchMedia"
    ELSE IF isVimeoSource(file.src) THEN "VimeoMedia"
    ELSE Null

_loadIframeSource(file) ==
    IF isDailymotionSource(file.src) THEN "DailymotionMedia"
    ELSE IF isFacebookSource(file.src) THEN "FacebookMedia"
    ELSE IF isTwitchSource(file.src) THEN "TwitchMedia"
    ELSE IF isVimeoSource(file.src) THEN "VimeoMedia"
    ELSE IF isYouTubeSource(file.src) THEN "YouTubeMedia"
    ELSE Null

_loadNativeSource(file) ==
    IF isHlsSource(file.src) THEN "HlsMedia"
    ELSE IF isDashSource(file.src) THEN "DashMedia"
    ELSE "NativeMedia"

\* The class the try block of load() selects for a source (null: none).
SelectedKind(el, file) ==
    IF isIframe(el) THEN _loadIframeSource(file) ELSE _loadNativeSource(file)

\* The try block raises when the selected class's constructor does.
ConstructRaises(el, file, f) == SelectedKind(el, file) \in f

\* this.media after the try/catch of one pass of the loop: the selected
\* adapter, or a NativeMedia when the try block raised.
LoopAdapter(el, file, f) ==
    IF ConstructRaises(el, file, f) THEN "NativeMedia" ELSE SelectedKind(el, file)

\* Media.canPlayType with this.media an adapter of `kind` built for `file`.
canPlayType(kind, file, mimeType) ==
    IF kind = "YouTubeMedia" THEN YouTubeCanPlayType(file, mimeType)
    ELSE OtherCanPlayType(kind, mimeType)

\* mediaFiles.some(...) from source i on.  outcome: "found" (the callback
\* returned true at idx), "raised" (canPlayType was read from null at idx)
\* or "exhausted".
RECURSIVE SomeLoop(_, _, _, _, _)
SomeLoop(el, files, f, i, done) ==
    IF i > Len(files) THEN [built |-> done, outcome |-> "exhausted", idx |-> 0]
    ELSE LET file == files[i]
             kind == LoopAdapter(el, file, f)
             now == Append(done, [idx |-> i, kind |-> kind, file |-> file,
                                  raised |-> ConstructRaises(el, file, f)])
         IN IF kind = Null THEN [built |-> now, outcome |-> "raised", idx |-> i]
            ELSE IF canPlayType(kind, file, file.type)
                 THEN [built |-> now, outcome |-> "found", idx |-> i]
                 ELSE SomeLoop(el, files, f, i + 1, now)

\* load() without its check of the list's length.
MediaNotSet_Unchecked(files) == FALSE

\* load() raises 'Media not set'.
MediaNotSet(files) == Len(files) = 0

NewAdapter(kind, file, reactions) ==
    [kind |-> kind, file |-> file, promise |-> NewPromise(kind), reactions |-> reactions]

\* Media.load()
Load ==
    /\ phase = "constructed"
    /\ CallsMade < MaxCalls
    /\ count' = [count EXCEPT !.load = @ + 1]
    /\ IF MediaNotSet(mediaFiles)
       THEN /\ result' = Result("load", TypeErrorNotSet)
            /\ UNCHANGED <<media, adapters, queue, built>>
       ELSE LET r == SomeLoop(element, mediaFiles, failing, 1, <<>>)
                last == r.built[Len(r.built)]
                n == Len(adapters) + 1
                job == Job("loadThen", 0, NullRef)
            IN /\ built' = r.built
               /\ IF r.built = <<>>
                  \* no pass of the loop ran: this.media is what it was
                  THEN /\ UNCHANGED <<media, adapters>>
                       /\ IF media.tag = "adapter"
                          THEN IF adapters[media.id].promise = "fulfilled"
                               THEN /\ queue' = Append(queue, job)
                                    /\ result' = Result("load", NoError)
                               ELSE /\ UNCHANGED queue
                                    /\ result' = Result("load", NoError)
                          ELSE /\ UNCHANGED queue
                               /\ result' = Result("load",
                                     IF media = NullRef THEN TypeErrorCannotPlay
                                     ELSE TypeErrorProperty)
                  ELSE IF r.outcome = "raised"
                  THEN /\ media' = NullRef
                       /\ result' = Result("load", TypeErrorProperty)
                       /\ UNCHANGED <<adapters, queue>>
                  ELSE /\ media' = AdapterRef(n)
                       /\ result' = Result("load", NoError)
                       /\ IF NewPromise(last.kind) = "fulfilled"
                          THEN /\ adapters' = Append(adapters, NewAdapter(last.kind, last.file, <<>>))
                               /\ queue' = Append(queue, job)
                          ELSE /\ adapters' = Append(adapters, NewAdapter(last.kind, last.file, <<job>>))
                               /\ UNCHANGED queue
    /\ UNCHANGED <<phase, element, globals, failing, mediaFiles, promisePlay, plays, calls>>

\* ------------------------------------------------------------------ play
\* Media.play(): promisePlay is a new promise whose reaction is queued at
\* once, the promise it is chained on being resolved already.
Play ==
    /\ phase = "constructed"
    /\ CallsMade < MaxCalls
    /\ count' = [count EXCEPT !.play = @ + 1]
    /\ plays' = Append(plays, [state |-> "pending", reactions |-> <<>>])
    /\ promisePlay' = Len(plays) + 1
    /\ queue' = Append(queue, Job("playOuter", Len(plays) + 1, NullRef))
    /\ result' = Result("play", NoError)
    /\ UNCHANGED <<phase, element, globals, failing, mediaFiles, media, adapters,
                   calls, built>>

\* typeof this.media[method] === 'function' ? this.media : this.element
Target(m, as, method) ==
    IF method \in AdapterMethods(as[m.id].kind) THEN m ELSE ElementRef

\* target[method] is a function.
Callable(target, as, el, method) ==
    IF target = ElementRef THEN method \in ElementMethods(el)
    ELSE method \in AdapterMethods(as[target.id].kind)

\* ----------------------------------------------------------------- pause
\* Media.pause()
Pause ==
    /\ phase = "constructed"
    /\ CallsMade < MaxCalls
    /\ count' = [count EXCEPT !.pause = @ + 1]
    /\ IF media.tag # "adapter"
       THEN /\ result' = Result("pause", TypeErrorProperty)
            /\ UNCHANGED <<plays, queue, calls>>
       ELSE LET target == Target(media, adapters, "pause")
                job == Job("pauseThen", promisePlay, target)
            IN IF promisePlay # 0
               THEN /\ result' = Result("pause", NoError)
                    /\ UNCHANGED calls
                    /\ IF plays[promisePlay].state = "pending"
                       THEN /\ plays' = [plays EXCEPT ![promisePlay].reactions = Append(@, job)]
                            /\ UNCHANGED queue
                       ELSE /\ UNCHANGED plays
                            \* a rejected promisePlay never calls the reaction
                            /\ queue' = IF plays[promisePlay].state = "fulfilled"
                                        THEN Append(queue, job) ELSE queue
               ELSE /\ UNCHANGED <<plays, queue>>
                    /\ IF Callable(target, adapters, element, "pause")
                       THEN /\ result' = Result("pause", NoError)
                            /\ calls' = Append(calls, Call("pause", target, 0,
                                   adapters[media.id].promise = "pending", <<>>))
                       ELSE /\ result' = Result("pause", TypeErrorNotFunction)
                            /\ UNCHANGED calls
    /\ UNCHANGED <<phase, element, globals, failing, mediaFiles, media, promisePlay,
                   adapters, built>>

\* --------------------------------------------------------------- destroy
\* Media.destroy()
Destroy ==
    /\ phase = "constructed"
    /\ CallsMade < MaxCalls
    /\ count' = [count EXCEPT !.destroy = @ + 1]
    /\ IF media.tag # "adapter"
       THEN /\ result' = Result("destroy", TypeErrorProperty)
            /\ UNCHANGED calls
       ELSE IF Callable(media, adapters, element, "destroy")
       THEN /\ result' = Result("destroy", NoError)
            /\ calls' = Append(calls, Call("destroy", media, 0,
                   adapters[media.id].promise = "pending", <<>>))
       ELSE /\ result' = Result("destroy", TypeErrorNotFunction)
            /\ UNCHANGED calls
    /\ UNCHANGED <<phase, element, globals, failing, mediaFiles, media, promisePlay,
                   adapters, plays, queue, built>>

\* --------------------------------------------------------------- set src
\* The end of the setter: this.media.src(this.mediaFiles) when
\* this.media.src is a function.
SetterTail(op, arg, files) ==
    IF media.tag # "adapter"
    THEN /\ result' = SetterResult(op, arg, TypeErrorProperty)
         /\ UNCHANGED calls
    ELSE /\ result' = SetterResult(op, arg, NoError)
         /\ calls' = IF "src" \in AdapterMethods(adapters[media.id].kind)
                     THEN Append(calls, Call("src", media, 0,
                              adapters[media.id].promise = "pending", files))
                     ELSE calls

\* media.src = "<url>"
SetSrcString(url) ==
    /\ phase = "constructed"
    /\ CallsMade < MaxCalls
    /\ count' = [count EXCEPT !.set = @ + 1]
    /\ IF globals.predictType = Unbound
       THEN /\ result' = SetterResult("src:string", <<url>>, ReferenceError)
            /\ UNCHANGED <<mediaFiles, calls>>
       ELSE \E t \in GlobalPredictResults :
               /\ mediaFiles' = Append(mediaFiles, MediaFile(url, t))
               /\ SetterTail("src:string", <<url>>, mediaFiles')
    /\ UNCHANGED <<phase, element, globals, failing, media, promisePlay, adapters,
                   plays, queue, built>>

\* media.src = [...]
SetSrcArray(files) ==
    /\ phase = "constructed"
    /\ CallsMade < MaxCalls
    /\ count' = [count EXCEPT !.set = @ + 1]
    /\ mediaFiles' = files
    /\ SetterTail("src:array", files, mediaFiles')
    /\ UNCHANGED <<phase, element, globals, failing, media, promisePlay, adapters,
                   plays, queue, built>>

\* media.src = {src, type}
SetSrcObject(file) ==
    /\ phase = "constructed"
    /\ CallsMade < MaxCalls
    /\ count' = [count EXCEPT !.set = @ + 1]
    /\ mediaFiles' = Append(mediaFiles, file)
    /\ SetterTail("src:object", <<file>>, mediaFiles')
    /\ UNCHANGED <<phase, element, globals, failing, media, promisePlay, adapters,
                   plays, queue, built>>

\* ------------------------------------------------------------ microtasks
\* The reaction of play()'s promise: chains the inner reaction on the
\* promise of the adapter this.media is now, and, returning nothing,
\* fulfils promisePlay whether or not that promise is settled.
RunPlayOuter(job) ==
    /\ UNCHANGED calls
    /\ IF media.tag # "adapter"
       THEN /\ plays' = [plays EXCEPT ![job.call] = [state |-> "rejected", reactions |-> <<>>]]
            /\ queue' = Tail(queue)
            /\ UNCHANGED adapters
       ELSE LET inner == Job("playInner", job.call, NullRef)
                settled == adapters[media.id].promise = "fulfilled"
            IN /\ plays' = [plays EXCEPT ![job.call] = [state |-> "fulfilled", reactions |-> <<>>]]
               /\ adapters' = IF settled THEN adapters
                              ELSE [adapters EXCEPT ![media.id].reactions = Append(@, inner)]
               /\ queue' = Tail(queue) \o (IF settled THEN <<inner>> ELSE <<>>)
                                       \o plays[job.call].reactions

\* The inner reaction of play(): target.play() on the adapter this.media
\* is now.
RunPlayInner(job) ==
    /\ queue' = Tail(queue)
    /\ UNCHANGED <<plays, adapters>>
    /\ calls' = IF media.tag = "adapter"
                   /\ Callable(Target(media, adapters, "play"), adapters, element, "play")
                THEN Append(calls, Call("play", Target(media, adapters, "play"), job.call,
                         adapters[media.id].promise = "pending", <<>>))
                ELSE calls

\* The reaction pause() chained on promisePlay: target.pause() on the
\* target pause() chose.
RunPauseThen(job) ==
    /\ queue' = Tail(queue)
    /\ UNCHANGED <<plays, adapters>>
    /\ calls' = IF Callable(job.target, adapters, element, "pause")
                THEN Append(calls, Call("pause", job.target, job.call,
                         job.target # ElementRef /\ adapters[job.target.id].promise = "pending",
                         <<>>))
                ELSE calls

\* The reaction load() chained on the adapter's promise: this.media.load().
RunLoadThen(job) ==
    /\ queue' = Tail(queue)
    /\ UNCHANGED <<plays, adapters>>
    /\ calls' = IF media.tag = "adapter"
                THEN Append(calls, Call("load", media, 0,
                         adapters[media.id].promise = "pending", <<>>))
                ELSE calls

\* The next job of the microtask queue runs.
RunJob ==
    /\ queue # <<>>
    /\ LET job == Head(queue)
       IN CASE job.t = "playOuter" -> RunPlayOuter(job)
            [] job.t = "playInner" -> RunPlayInner(job)
            [] job.t = "pauseThen" -> RunPauseThen(job)
            [] job.t = "loadThen" -> RunLoadThen(job)
    /\ UNCHANGED <<phase, element, globals, failing, mediaFiles, media, promisePlay,
                   built, result, count>>

\* An adapter's library has loaded: its promise is fulfilled and the
\* reactions chained on it are queued.
Fulfil(n) ==
    /\ adapters[n].promise = "pending"
    /\ adapters' = [adapters EXCEPT ![n] = [@ EXCEPT !.promise = "fulfilled", !.reactions = <<>>]]
    /\ queue' = queue \o adapters[n].reactions
    /\ UNCHANGED <<phase, element, globals, failing, mediaFiles, media, promisePlay,
                   plays, calls, built, result, count>>

\* Every method, job and environment step.
Next ==
    \/ Construct
    \/ Load
    \/ Play
    \/ Pause
    \/ Destroy
    \/ \E url \in SetterStrings : SetSrcString(url)
    \/ \E files \in SetterArrays : SetSrcArray(files)
    \/ \E file \in SetterObjects : SetSrcObject(file)
    \/ RunJob
    \/ \E n \in 1..Len(adapters) : Fulfil(n)

Spec == Init /\ [][Next]_vars

\* Source selection: every element and environment, the constructor, load()
\* and the src setter.  play(), pause() and destroy() change nothing load()
\* or the setter read, and are left to SpecPlay.
NextSelect ==
    \/ Construct
    \/ Load
    \/ \E url \in SetterStrings : SetSrcString(url)
    \/ \E files \in SetterArrays : SetSrcArray(files)
    \/ \E file \in SetterObjects : SetSrcObject(file)
    \/ RunJob
    \/ \E n \in 1..Len(adapters) : Fulfil(n)

SpecSelect == Init /\ [][NextSelect]_vars

\* Source selection with every adapter's library present.
InitLoad == Init /\ failing = {}

SpecLoad == InitLoad /\ [][NextSelect]_vars

\* Playback: a YouTube iframe, a Vimeo iframe and a video element with one
\* MP4 source, in a page that binds nodeSource, with every library present.
PlayElements ==
    { e \in Elements :
        \/ isIframe(e) /\ e.src \in {UrlYouTube, UrlVimeo}
        \/ ~isIframe(e) /\ e.src = UrlMp4 /\ e.sourceTags = <<TagMp4>> }

InitPlay ==
    /\ Init
    /\ element \in PlayElements
    /\ globals = [nodeSource |-> "", predictType |-> Unbound]
    /\ failing = {}

NextPlay ==
    \/ Construct
    \/ Load
    \/ Destroy
    \/ Play
    \/ Pause
    \/ RunJob
    \/ \E n \in 1..Len(adapters) : Fulfil(n)

SpecPlay == InitPlay /\ [][NextPlay]_vars

\* ================================================================ claims

\* The sources of the list that their adapter can play: the adapter one pass
\* of load()'s loop leaves in this.media exists and reports
\* canPlayType(source.type).
PlayableAt(i) ==
    LET kind == LoopAdapter(element, mediaFiles[i], failing)
    IN kind # Null /\ canPlayType(kind, mediaFiles[i], mediaFiles[i].type)
PlayableSources == { i \in DOMAIN mediaFiles : PlayableAt(i) }
FirstPlayable == CHOOSE i \in PlayableSources : \A j \in PlayableSources : i <= j

\* C1: once load() has returned normally and this.media is the adapter it
\* selected, play(), pause() and destroy() raise no error, whichever the
\* adapter.
C1_SurfaceNeverRaises ==
    (media.tag = "adapter" /\ result.op \in {"play", "pause", "destroy"})
        => result.err = NoError

\* C2: after load() on a list with a playable source, this.media is the
\* adapter built for the first playable source, the sources up to it were
\* tried in order, and no adapter was built for a later source.
C2_FirstPlayableSelected ==
    (result.op = "load" /\ PlayableSources # {}) =>
        /\ result.err = NoError
        /\ media.tag = "adapter"
        /\ adapters[media.id].kind = LoopAdapter(element, mediaFiles[FirstPlayable], failing)
        /\ adapters[media.id].file = mediaFiles[FirstPlayable]
        /\ Len(built) = FirstPlayable
        /\ \A j \in DOMAIN built : built[j].idx = j /\ built[j].file = mediaFiles[j]

\* The priority the claim C3 states: the first class of the order whose
\* pattern the URL matches.
C3_IframeOrder ==
    <<"DailymotionMedia", "FacebookMedia", "TwitchMedia", "VimeoMedia", "YouTubeMedia">>
C3_NativeOrder == <<"HlsMedia", "DashMedia">>
C3_Matches(kind, url) ==
    CASE kind = "DailymotionMedia" -> isDailymotionSource(url)
      [] kind = "FacebookMedia" -> isFacebookSource(url)
      [] kind = "TwitchMedia" -> isTwitchSource(url)
      [] kind = "VimeoMedia" -> isVimeoSource(url)
      [] kind = "YouTubeMedia" -> isYouTubeSource(url)
      [] kind = "HlsMedia" -> isHlsSource(url)
      [] kind = "DashMedia" -> isDashSource(url)
C3_FirstMatch(order, url, none) ==
    LET hits == { i \in DOMAIN order : C3_Matches(order[i], url) }
    IN IF hits = {} THEN none
       ELSE order[CHOOSE i \in hits : \A j \in hits : i <= j]
C3_Claimed(el, url) ==
    IF el.kind = "iframe" THEN C3_FirstMatch(C3_IframeOrder, url, Null)
    ELSE C3_FirstMatch(C3_NativeOrder, url, "NativeMedia")
C3_ByPriority(b) ==
    /\ b.kind = C3_Claimed(element, b.file.src)
    /\ element.kind = "iframe" => b.kind \notin NativeKinds
    /\ element.kind # "iframe" => b.kind \notin ThirdPartyKinds

\* C3 as stated: every adapter load() builds is the one the fixed priority
\* gives for the element kind and the source URL; an iframe never gets an
\* HLS, DASH or native adapter, another element never a third-party one.
C3_Original == \A i \in DOMAIN built : C3_ByPriority(built[i])

\* C3 as amended: the adapter is the one the fixed priority gives when
\* selecting and constructing it raises nothing; when that raises, the
\* adapter is a NativeMedia, for an iframe element too.
C3_Amended ==
    \A i \in DOMAIN built :
        IF built[i].raised THEN built[i].kind = "NativeMedia"
        ELSE C3_ByPriority(built[i])

\* C3's case: load() on an iframe whose URL matches the Vimeo and the
\* YouTube patterns built a VimeoMedia.
C3_Witness ==
    \E i \in DOMAIN built :
        /\ element.kind = "iframe"
        /\ built[i].file.src = UrlVimeoYouTube
        /\ ~built[i].raised
        /\ built[i].kind = "VimeoMedia"

\* The calls of play() made on a target for the play() call p.
PlayCallsOf(p) == { i \in DOMAIN calls : calls[i].op = "play" /\ calls[i].call = p }
\* The inner reaction of the play() call p is still to run.
PlayInnerWaits(p) ==
    \/ \E i \in DOMAIN queue : queue[i].t = "playInner" /\ queue[i].call = p
    \/ \E n \in DOMAIN adapters : \E i \in DOMAIN adapters[n].reactions :
          adapters[n].reactions[i].t = "playInner" /\ adapters[n].reactions[i].call = p

\* C4: play() is never called on the target while the promise of the
\* adapter selected is pending, and a play() call whose reactions have all
\* run, the promise being fulfilled, has called the target's play() exactly
\* once.
C4_PlayDeferred ==
    /\ \A i \in DOMAIN calls : calls[i].op = "play" => ~calls[i].pending
    /\ \A p \in DOMAIN plays :
          /\ Cardinality(PlayCallsOf(p)) <= 1
          /\ (plays[p].state = "fulfilled" /\ ~PlayInnerWaits(p))
                => Cardinality(PlayCallsOf(p)) = 1

\* A step of the src setter as C5 states it: it replaces the list by the array given, or
\* appends the object given, or appends {src, type} for the string given
\* with the type predicted from it; the adapter's src function, when it has
\* one, receives the updated list.
C5_SetterStep ==
    (count'.set = count.set + 1) =>
        /\ result'.op = "src:string" =>
              mediaFiles' = Append(mediaFiles,
                                MediaFile(result'.arg[1], predictType(result'.arg[1])))
        /\ result'.op = "src:array" => mediaFiles' = result'.arg
        /\ result'.op = "src:object" => mediaFiles' = Append(mediaFiles, result'.arg[1])
        /\ (media.tag = "adapter" /\ "src" \in AdapterMethods(adapters[media.id].kind))
              => /\ Len(calls') = Len(calls) + 1
                 /\ calls'[Len(calls')].op = "src"
                 /\ calls'[Len(calls')].arg = mediaFiles'
\* C5: every step of the src setter updates the list as C5_SetterStep says.
C5_SetterUpdatesList == [][C5_SetterStep]_vars

\* C6: the constructor raises nothing, and leaves in the list one entry for
\* an iframe's src, or one entry per <source> child preceded by an entry for
\* the element's src when it has one.
C6_ConstructorGathers ==
    /\ phase # "threw"
    /\ result.op = "constructor" =>
          IF element.kind = "iframe"
          THEN mediaFiles = <<MediaFile(element.src, predictType(element.src))>>
          ELSE IF element.src # Undefined
          THEN /\ Len(mediaFiles) = Len(element.sourceTags) + 1
               /\ mediaFiles[1].src = element.src
               /\ Tail(mediaFiles) = SourceTagFiles(element.sourceTags)
          ELSE mediaFiles = SourceTagFiles(element.sourceTags)

\* C7: load() on a list none of whose sources can be played raises
\* 'Media cannot be played with any valid media type', and load() is not
\* called on the adapter.
C7_NoPlayableRaises ==
    (result.op = "load" /\ mediaFiles # <<>> /\ PlayableSources = {}) =>
        /\ result.err = TypeErrorCannotPlay
        /\ \A i \in DOMAIN calls : ~(calls[i].op = "load" /\ calls[i].on = media)

\* A step of load() as C8 states it: a call with an empty list raises 'Media not set' and
\* changes nothing else: no adapter is built, this.media and the list stay,
\* and no reaction is chained or queued.
C8_EmptyLoadStep ==
    (count'.load = count.load + 1 /\ mediaFiles = <<>>) =>
        /\ result' = Result("load", TypeErrorNotSet)
        /\ UNCHANGED <<media, mediaFiles, promisePlay, adapters, plays, queue, calls, built>>
\* C8: every step of load() on an empty list is as C8_EmptyLoadStep says.
C8_EmptyLoadRaisesFirst == [][C8_EmptyLoadStep]_vars

\* C8's case: load() has raised 'Media not set' on an emptied list, an
\* earlier load() having selected an adapter.
C8_Witness ==
    /\ result = Result("load", TypeErrorNotSet)
    /\ mediaFiles = <<>>
    /\ media.tag = "adapter"
    /\ count.load = 2

\* C9: the pause() a pause() call makes on the target, when it follows a
\* play() call, comes after the play() that call makes on the target.
C9_PauseAfterPlay ==
    \A i \in DOMAIN calls :
        (calls[i].op = "pause" /\ calls[i].call # 0) =>
            \E j \in 1..(i - 1) : calls[j].op = "play" /\ calls[j].call = calls[i].call

====
